---- MODULE Spec2Model ----
(***************************************************************************)
(* The display runtime of the Tiny TRS-80 Model III emulation library      *)
(* (src/src/lib/tinymodel3.py, class Runtime): the character buffer, the   *)
(* cursor, the control-code interpreter of print(), the pixel and memory   *)
(* window calls and the line editor of input().                           *)
(*                                                                         *)
(* A Runtime object is modelled by a record `self` holding the fields the  *)
(* code reads and writes (line_width, line_count, chars_len, chars,        *)
(* cursor), the displayed surface `shown`, and three bookkeeping fields of  *)
(* the call in progress: `scrolls`, the number of _scroll() calls made,    *)
(* `redraws`, the number of per-cell redraws issued, and `err`, the Python *)
(* exception that ended the call ("none" while the call is still running   *)
(* normally), and `ret`, the value the call returns (<<v>>, or <<>> for   *)
(* None).  The Python list self.chars is a function on                 *)
(* 0 .. chars_len-1.  The surface (self.chars_bitmap, resp. the SDL        *)
(* renderer) is a function giving, for every cell rectangle, the code      *)
(* whose glyph was drawn there last; a cleared rectangle counts as code    *)
(* 32.                                                                     *)
(***************************************************************************)
EXTENDS Integers, Sequences, FiniteSets

VARIABLES
    line_width,   \* self.line_width
    line_count,   \* self.line_count
    chars_len,    \* self.chars_len
    chars,        \* self.chars
    cursor,       \* self.cursor
    shown,        \* the surface: the code displayed in each cell rectangle
    demoInput,    \* self.demoInput: the script, <<>> for None or ""
    demoInputPos, \* self.demoInputPos
    input_text,   \* the local variable text of the _input() in progress
    units,        \* the input units the _input() in progress has consumed
    pc,           \* "idle", or where the input() call is: "editing",
                  \* "returned", "failed"
    last,         \* the last API call: its name, arguments, pre-state, outcome
    calls,        \* number of API calls made so far
    running,      \* lib_sdl only: self.running
    quit          \* lib_sdl only: a quit request is in the host's event queue

vars == <<line_width, line_count, chars_len, chars, cursor, shown,
          demoInput, demoInputPos, input_text, units, pc, last, calls,
          running, quit>>

(***************************************************************************)
(* Construction: Runtime.__init__                                          *)
(***************************************************************************)

\* the modes __init__ accepts (any other raises ValueError)
Modes == {64, 32}

\* self.line_count, the same in both modes
LineCount == 16

\* the blank cell code
Blank == 32

\* the first tab code: code c in TabBase .. 255 tabs to column c - TabBase
TabBase == 191

\* the state of the object after Runtime(mode) with the given geometry
NewRuntime(w, l) ==
    [ line_width |-> w,
      line_count |-> l,
      chars_len  |-> w * l,
      chars      |-> [i \in 0 .. (w * l - 1) |-> Blank],
      cursor     |-> 0,
      shown      |-> [i \in 0 .. (w * l - 1) |-> Blank],
      demoInput  |-> <<>>,
      demoInputPos |-> 0,
      text       |-> <<>>,
      brk        |-> FALSE,
      scrolls    |-> 0,
      redraws    |-> 0,
      direct     |-> 0,
      ret        |-> <<>>,
      err        |-> "none" ]

\* Runtime(mode)
Runtime(mode) == NewRuntime(IF mode = 64 THEN 64 ELSE 32, LineCount)

(***************************************************************************)
(* The buffer primitives                                                   *)
(***************************************************************************)

Min(a, b) == IF a < b THEN a ELSE b

\* self.chars[pos] is defined for -chars_len <= pos < chars_len (a negative
\* index of a Python list counts from the end); any other raises IndexError
ValidIndex(self, pos) == pos >= -self.chars_len /\ pos < self.chars_len

ListIndex(self, pos) == IF pos < 0 THEN pos + self.chars_len ELSE pos

\* int(a/b) for b > 0: the quotient truncated toward zero
TruncDiv(a, b) == IF a >= 0 THEN a \div b ELSE -((-a) \div b)

\* the cell rectangle _update_char(pos, ..) draws: x from pos%line_width,
\* y from int(pos/line_width)
surface_cell(self, pos) ==
    TruncDiv(pos, self.line_width) * self.line_width + (pos % self.line_width)

\* a redraw that is counted and draws nothing
redraw_lost(self, pos, char) ==
    [self EXCEPT !.redraws = self.redraws + 1]

\* the redraw of _update_char: the rectangle is cleared and the glyph
\* drawn; a rectangle above the surface fails the assertion on y
redraw(self, pos, char) ==
    IF surface_cell(self, pos) < 0
    THEN [self EXCEPT !.redraws = self.redraws + 1, !.err = "AssertionError"]
    ELSE [self EXCEPT !.shown[surface_cell(self, pos)] = char,
                      !.redraws = self.redraws + 1]

\* a _update_char that stores whatever code it is given
update_char_unchecked(self, pos, char) ==
    IF self.err # "none" THEN self
    ELSE IF ~ValidIndex(self, pos) THEN [self EXCEPT !.err = "IndexError"]
    ELSE IF self.chars[ListIndex(self, pos)] = char THEN self
    ELSE redraw([self EXCEPT !.chars[ListIndex(self, pos)] = char], pos, char)

\* a _update_char that redraws whether or not the cell changes
update_char_always(self, pos, char) ==
    IF self.err # "none" THEN self
    ELSE IF ~(char >= 0 /\ char < 256) THEN [self EXCEPT !.err = "AssertionError"]
    ELSE IF ~ValidIndex(self, pos) THEN [self EXCEPT !.err = "IndexError"]
    ELSE redraw([self EXCEPT !.chars[ListIndex(self, pos)] = char], pos, char)

\* _update_char(pos, char); a call made after an exception was raised does
\* not happen (the exception has unwound the caller)
update_char(self, pos, char) ==
    IF self.err # "none" THEN self
    ELSE IF ~(char >= 0 /\ char < 256) THEN [self EXCEPT !.err = "AssertionError"]
    ELSE IF ~ValidIndex(self, pos) THEN [self EXCEPT !.err = "IndexError"]
    ELSE IF self.chars[ListIndex(self, pos)] = char THEN self
    ELSE redraw([self EXCEPT !.chars[ListIndex(self, pos)] = char], pos, char)

\* the loop  for i in range(n): self._update_char(pos+i, 32)  for pos >= 0
\* (every caller passes the cursor, which print never makes negative).
\* pos+i grows with i, so the first failing index is the first one that
\* reaches chars_len; the iterations before it have taken effect, each
\* redrawing its cell if the cell was not blank
blank_cells_direct(self, pos, n) ==
    IF self.err # "none" \/ n <= 0 THEN self
    ELSE LET done == Min(n, self.chars_len - pos)
         IN  [self EXCEPT
                !.chars   = [k \in DOMAIN self.chars |->
                                IF k >= pos /\ k < pos + done
                                THEN Blank ELSE self.chars[k]],
                !.shown   = [k \in DOMAIN self.shown |->
                                IF k >= pos /\ k < pos + done
                                THEN Blank ELSE self.shown[k]],
                !.err     = IF done < n THEN "IndexError" ELSE "none"]

blank_cells(self, pos, n) ==
    IF self.err # "none" \/ n <= 0 THEN self
    ELSE LET done == Min(n, self.chars_len - pos)
             changed == {k \in pos .. (pos + done - 1) : self.chars[k] # Blank}
         IN  [self EXCEPT
                !.chars   = [k \in DOMAIN self.chars |->
                                IF k >= pos /\ k < pos + done
                                THEN Blank ELSE self.chars[k]],
                !.shown   = [k \in DOMAIN self.shown |->
                                IF k >= pos /\ k < pos + done /\ self.chars[k] # Blank
                                THEN Blank ELSE self.shown[k]],
                !.redraws = self.redraws + Cardinality(changed),
                !.err     = IF done < n THEN "IndexError" ELSE "none"]

\* a _scroll() that shifts the rows and forgets to blank the last one
scroll_stale(self) ==
    IF self.err # "none" THEN self
    ELSE [self EXCEPT
            !.chars = [i \in DOMAIN self.chars |->
                          IF i < self.chars_len - self.line_width
                          THEN self.chars[i + self.line_width]
                          ELSE self.chars[i]],
            !.shown = [i \in DOMAIN self.shown |->
                          IF i < self.chars_len - self.line_width
                          THEN self.shown[i + self.line_width]
                          ELSE Blank],
            !.direct = self.direct + self.chars_len,
            !.scrolls = self.scrolls + 1]

\* a _scroll() that puts the old top row into the last row
scroll_rotate(self) ==
    IF self.err # "none" THEN self
    ELSE [self EXCEPT
            !.chars = [i \in DOMAIN self.chars |->
                          self.chars[(i + self.line_width) % self.chars_len]],
            !.shown = [i \in DOMAIN self.shown |->
                          self.shown[(i + self.line_width) % self.chars_len]],
            !.direct = self.direct + self.chars_len,
            !.scrolls = self.scrolls + 1]

\* _scroll(): the copy loop runs upwards and reads cell i+line_width before
\* it is overwritten, so it is the simultaneous shift; the surface is
\* copied up by one row height and its last row cleared
scroll(self) ==
    IF self.err # "none" THEN self
    ELSE [self EXCEPT
            !.chars = [i \in DOMAIN self.chars |->
                          IF i < self.chars_len - self.line_width
                          THEN self.chars[i + self.line_width]
                          ELSE Blank],
            !.shown = [i \in DOMAIN self.shown |->
                          IF i < self.chars_len - self.line_width
                          THEN self.shown[i + self.line_width]
                          ELSE Blank],
            !.direct = self.direct + self.chars_len,
            !.scrolls = self.scrolls + 1]

\* a _cls() that leaves the cursor where it is
cls_keep(self) ==
    [self EXCEPT !.shown = [i \in DOMAIN self.shown |-> Blank],
                 !.chars = [i \in DOMAIN self.chars |-> Blank],
                 !.direct = self.direct + self.chars_len]

\* _cls(): the surface is cleared, every cell set to 32, the cursor to 0
cls(self) ==
    [self EXCEPT !.shown = [i \in DOMAIN self.shown |-> Blank],
                 !.chars = [i \in DOMAIN self.chars |-> Blank],
                 !.direct = self.direct + self.chars_len,
                 !.cursor = 0]

(***************************************************************************)
(* print(text): the control-code interpreter                               *)
(***************************************************************************)

\* int(self.cursor/self.line_width) and self.cursor%self.line_width
cursor_row(self) == self.cursor \div self.line_width
cursor_col(self) == self.cursor % self.line_width

\* a backspace that blanks the cell it leaves instead of the one it reaches
print_bs_before(self) ==
    LET s1 == update_char(self, self.cursor, Blank)
    IN  [s1 EXCEPT !.cursor = (self.cursor - 1 + self.chars_len) % self.chars_len]

\* c == 8
print_bs(self) ==
    LET s1 == [self EXCEPT !.cursor = (self.cursor - 1 + self.chars_len) % self.chars_len]
    IN  update_char(s1, s1.cursor, Blank)

\* a newline that does not clear the remainder of the line
print_newline_noclear(self) ==
    LET row == cursor_row(self)
    IN  IF row < self.line_count - 1
        THEN [self EXCEPT !.cursor = (row + 1) * self.line_width]
        ELSE [scroll(self) EXCEPT !.cursor = row * self.line_width]

\* c == 10 or c == 13
print_newline(self) ==
    LET row == cursor_row(self)
        col == cursor_col(self)
        s1  == blank_cells(self, self.cursor, self.line_width - col)
    IN  IF s1.err # "none" THEN s1
        ELSE IF row < self.line_count - 1
             THEN [s1 EXCEPT !.cursor = (row + 1) * self.line_width]
             ELSE [scroll(s1) EXCEPT !.cursor = row * self.line_width]

\* a cursor-left that steps back over the row boundary
print_left_across(self) ==
    [self EXCEPT !.cursor = (self.cursor - 1 + self.chars_len) % self.chars_len]

\* c == 24
print_left(self) ==
    [self EXCEPT !.cursor = cursor_row(self) * self.line_width
                   + ((cursor_col(self) - 1 + self.line_width) % self.line_width)]

\* c == 25
print_right(self) ==
    [self EXCEPT !.cursor = cursor_row(self) * self.line_width
                   + ((cursor_col(self) + 1) % self.line_width)]

\* c == 26
print_down(self) ==
    [self EXCEPT !.cursor = ((cursor_row(self) + 1) % self.line_count) * self.line_width
                   + cursor_col(self)]

\* a cursor-up that stops at the top row instead of wrapping
print_up_nowrap(self) ==
    [self EXCEPT !.cursor =
        (IF cursor_row(self) = 0 THEN 0 ELSE cursor_row(self) - 1) * self.line_width
          + cursor_col(self)]

\* c == 27
print_up(self) ==
    [self EXCEPT !.cursor =
        ((cursor_row(self) - 1 + self.line_count) % self.line_count) * self.line_width
          + cursor_col(self)]

\* c == 28
print_home(self) == [self EXCEPT !.cursor = 0]

\* c == 29
print_sol(self) == [self EXCEPT !.cursor = cursor_row(self) * self.line_width]

\* a clear-to-end-of-line that clears the whole line
print_ceol_row(self) ==
    blank_cells(self, cursor_row(self) * self.line_width, self.line_width)

\* c == 30
print_ceol(self) == blank_cells(self, self.cursor, self.line_width - cursor_col(self))

\* c == 31
print_ceof(self) == blank_cells(self, self.cursor, self.chars_len - self.cursor)

\* a tab that also moves the cursor left
print_tab_always(self, c) ==
    [self EXCEPT !.cursor = cursor_row(self) * self.line_width + (c - TabBase)]

\* c >= 191 and c < 256
print_tab(self, c) ==
    LET tab_col == c - TabBase
        col     == IF cursor_col(self) < tab_col THEN tab_col ELSE cursor_col(self)
    IN  [self EXCEPT !.cursor = cursor_row(self) * self.line_width + col]

\* a glyph print that wraps to the first cell instead of scrolling
print_glyph_wrap(self, c) ==
    LET s1 == update_char(self, self.cursor, c)
    IN  IF s1.err # "none" THEN s1
        ELSE [s1 EXCEPT !.cursor = (s1.cursor + 1) % s1.chars_len]

\* the else branch: any other code
print_glyph(self, c) ==
    LET s1 == update_char(self, self.cursor, c)
    IN  IF s1.err # "none" THEN s1
        ELSE LET s2 == [s1 EXCEPT !.cursor = s1.cursor + 1]
             IN  IF s2.cursor >= s2.chars_len
                 THEN [scroll(s2) EXCEPT !.cursor = (s2.line_count - 1) * s2.line_width]
                 ELSE s2

\* one iteration of the loop of print(): the character code c
print_char(self, c) ==
    IF self.err # "none" THEN self
    ELSE IF c = 8 THEN print_bs(self)
    ELSE IF c = 10 \/ c = 13 THEN print_newline(self)
    ELSE IF c = 24 THEN print_left(self)
    ELSE IF c = 25 THEN print_right(self)
    ELSE IF c = 26 THEN print_down(self)
    ELSE IF c = 27 THEN print_up(self)
    ELSE IF c = 28 THEN print_home(self)
    ELSE IF c = 29 THEN print_sol(self)
    ELSE IF c = 30 THEN print_ceol(self)
    ELSE IF c = 31 THEN print_ceof(self)
    ELSE IF c >= TabBase /\ c < 256 THEN print_tab(self, c)
    ELSE print_glyph(self, c)

\* the value of the variable i (0-based) at the end of the iteration that
\* interprets code c with i as its index: the inner loops of 10/13, 30 and
\* 31, `for i in range(n)`, leave n - 1 in it when n > 0
print_loop_var(self, c, i) ==
    LET n == IF c = 10 \/ c = 13 \/ c = 30
             THEN self.line_width - cursor_col(self)
             ELSE IF c = 31 THEN self.chars_len - self.cursor
             ELSE 0
    IN  IF n > 0 THEN n - 1 ELSE i

\* a loop that goes on after the larger of its own count and i
next_index_skip(k, i) == IF i + 1 > k THEN i + 1 ELSE k

\* the index (0-based) `for i in range(len(text))` binds next, k being the
\* next value of the range and i what the iteration left in the variable
next_index(k, i) == k

\* print(text): the codes of text, in order, up to the first one that
\* raises; the inner loops rebind i but range(len(text)) yields the next
\* index whatever i was set to.  The index i of print_from is 1-based.
RECURSIVE print_from(_, _, _)
print_from(self, text, i) ==
    IF i > Len(text) THEN self
    ELSE LET s1 == print_char(self, text[i])
             v  == print_loop_var(self, text[i], i - 1)
         IN  IF s1.err # "none" THEN s1
             ELSE print_from(s1, text, next_index(i, v) + 1)

print(self, text) == print_from(self, text, 1)

\* a print_at that prints at the cursor it finds
print_at_keep(self, pos, text) ==
    IF ~(pos >= 0 /\ pos < self.line_width * self.line_count)
    THEN [self EXCEPT !.err = "AssertionError"]
    ELSE print(self, text)

\* print_at(pos, text)
print_at(self, pos, text) ==
    IF ~(pos >= 0 /\ pos < self.line_width * self.line_count)
    THEN [self EXCEPT !.err = "AssertionError"]
    ELSE print([self EXCEPT !.cursor = pos], text)

\* tab(n): the code, or -1 for the AssertionError
tab(n) == IF n >= 0 /\ n < 64 THEN TabBase + n ELSE -1

(***************************************************************************)
(* set / reset / point: the 2 x 3 pixels packed in a cell code             *)
(***************************************************************************)

\* Python's a & b, a | b and a ^ b on non-negative integers
RECURSIVE bit_and(_, _)
bit_and(a, b) ==
    IF a = 0 \/ b = 0 THEN 0
    ELSE ((a % 2) * (b % 2)) + (2 * bit_and(a \div 2, b \div 2))

RECURSIVE bit_or(_, _)
bit_or(a, b) ==
    IF a = 0 THEN b
    ELSE IF b = 0 THEN a
    ELSE (IF (a % 2) + (b % 2) > 0 THEN 1 ELSE 0) + (2 * bit_or(a \div 2, b \div 2))

RECURSIVE bit_xor(_, _)
bit_xor(a, b) ==
    IF a = 0 THEN b
    ELSE IF b = 0 THEN a
    ELSE (((a % 2) + (b % 2)) % 2) + (2 * bit_xor(a \div 2, b \div 2))

\* assertions that admit the pixel column 2*line_width
pixel_ok_wide(self, x, y) ==
    /\ x >= 0 /\ x < self.line_width * 2 + 1
    /\ y >= 0 /\ y < self.line_count * 3

\* the two assertions on x and y
pixel_ok(self, x, y) ==
    /\ x >= 0 /\ x < self.line_width * 2
    /\ y >= 0 /\ y < self.line_count * 3

\* pos = row*self.line_width+col with row = (int)(y/3), col = (int)(x/2)
pixel_pos(self, x, y) == (y \div 3) * self.line_width + (x \div 2)

\* 1<<(2*(y%3) + x%2)
pixel_mask(x, y) == 2 ^ ((2 * (y % 3)) + (x % 2))

\* b = self.chars[pos]; if not b&0x80: b = 0x80
pixel_base(self, x, y) ==
    LET b == self.chars[pixel_pos(self, x, y)]
    IN  IF bit_and(b, 128) = 0 THEN 128 ELSE b

\* a set(x, y) that starts from the bare graphics code whatever the cell holds
set_fresh(self, x, y) ==
    IF ~pixel_ok(self, x, y) THEN [self EXCEPT !.err = "AssertionError"]
    ELSE update_char(self, pixel_pos(self, x, y), bit_or(128, pixel_mask(x, y)))

\* set(x, y)
set(self, x, y) ==
    IF ~pixel_ok(self, x, y) THEN [self EXCEPT !.err = "AssertionError"]
    ELSE update_char(self, pixel_pos(self, x, y),
                     bit_or(pixel_base(self, x, y), pixel_mask(x, y)))

\* a reset(x, y) that flips the bit
reset_toggle(self, x, y) ==
    IF ~pixel_ok(self, x, y) THEN [self EXCEPT !.err = "AssertionError"]
    ELSE update_char(self, pixel_pos(self, x, y),
                     bit_xor(pixel_base(self, x, y), pixel_mask(x, y)))

\* reset(x, y)
reset(self, x, y) ==
    IF ~pixel_ok(self, x, y) THEN [self EXCEPT !.err = "AssertionError"]
    ELSE update_char(self, pixel_pos(self, x, y),
                     bit_and(pixel_base(self, x, y), bit_xor(65535, pixel_mask(x, y))))

\* a point(x, y) that does not look at bit 7
point_any(self, x, y) ==
    IF ~pixel_ok(self, x, y) THEN [self EXCEPT !.err = "AssertionError"]
    ELSE LET b == self.chars[pixel_pos(self, x, y)]
         IN  [self EXCEPT !.ret = <<bit_and(b, pixel_mask(x, y)) > 0>>]

\* point(x, y)
point(self, x, y) ==
    IF ~pixel_ok(self, x, y) THEN [self EXCEPT !.err = "AssertionError"]
    ELSE LET b == self.chars[pixel_pos(self, x, y)]
         IN  IF bit_and(b, 128) = 0 THEN [self EXCEPT !.ret = <<FALSE>>]
             ELSE [self EXCEPT !.ret = <<bit_and(b, pixel_mask(x, y)) > 0>>]

(***************************************************************************)
(* peek / poke: the video memory window                                    *)
(***************************************************************************)

\* the address of cell 0
VideoBase == 15360

\* a peek(addr) whose window starts one address late
peek_above(self, addr) ==
    IF addr > VideoBase /\ addr < VideoBase + self.chars_len
    THEN [self EXCEPT !.ret = <<self.chars[addr - VideoBase]>>]
    ELSE [self EXCEPT !.ret = <<0>>]

\* peek(addr)
peek(self, addr) ==
    IF addr >= VideoBase /\ addr < VideoBase + self.chars_len
    THEN [self EXCEPT !.ret = <<self.chars[addr - VideoBase]>>]
    ELSE [self EXCEPT !.ret = <<0>>]

\* a poke(addr, val) whose window starts one address late
poke_above(self, addr, val) ==
    IF addr > VideoBase /\ addr < VideoBase + self.chars_len
    THEN update_char(self, addr - VideoBase, val)
    ELSE self

\* a poke(addr, val) that stores val without the primitive
poke_raw(self, addr, val) ==
    IF addr >= VideoBase /\ addr < VideoBase + self.chars_len
    THEN [self EXCEPT !.chars[addr - VideoBase] = val,
                      !.shown[addr - VideoBase] = val]
    ELSE self

\* poke(addr, val)
poke(self, addr, val) ==
    IF addr >= VideoBase /\ addr < VideoBase + self.chars_len
    THEN update_char(self, addr - VideoBase, val)
    ELSE self

(***************************************************************************)
(* input(prompt): the line editor _input                                   *)
(***************************************************************************)

\* the cursor block the editor blinks
CursorBlock == 176

\* no byte is available on the serial line
NoUnit == -1

\* if ticks_ms()&0x100 == 0: _update_char(cursor, 176) else (cursor, 32)
input_blink(self, phase) ==
    update_char(self, self.cursor, IF phase THEN CursorBlock ELSE Blank)

\* text += c; _update_char(cursor, ord(c)); cursor += 1
input_char(self, c) ==
    LET r == update_char([self EXCEPT !.text = Append(self.text, c)],
                         self.cursor, c)
    IN  IF r.err # "none" THEN r ELSE [r EXCEPT !.cursor = r.cursor + 1]

\* a backspace that does not look at the text
input_backspace_empty(self) ==
    LET r1 == update_char(self, self.cursor, Blank)
    IN  IF r1.err # "none" THEN r1
        ELSE update_char([r1 EXCEPT !.text = SubSeq(r1.text, 1, Len(r1.text) - 1),
                                    !.cursor = r1.cursor - 1],
                         r1.cursor - 1, Blank)

\* ord(c) == 8 or ord(c) == 127: if len(text) > 0, blank the cursor cell,
\* text = text[:-1], cursor -= 1, blank the cursor cell
input_backspace(self) ==
    IF Len(self.text) > 0
    THEN LET r1 == update_char(self, self.cursor, Blank)
         IN  IF r1.err # "none" THEN r1
             ELSE update_char([r1 EXCEPT !.text = SubSeq(r1.text, 1, Len(r1.text) - 1),
                                         !.cursor = r1.cursor - 1],
                              r1.cursor - 1, Blank)
    ELSE self

\* ord(c) == 10 or ord(c) == 13: _update_char(cursor, 32); break
input_terminator(self) ==
    LET r == update_char(self, self.cursor, Blank)
    IN  IF r.err # "none" THEN r ELSE [r EXCEPT !.brk = TRUE]

\* self.demoInput and self.demoInputPos < len(self.demoInput)
input_is_scripted(self) ==
    self.demoInput # <<>> /\ self.demoInputPos < Len(self.demoInput)

\* a scripted branch that does not wrap the replay position
input_scripted_stay(self) ==
    LET c == self.demoInput[self.demoInputPos + 1]
        s == [self EXCEPT !.demoInputPos = self.demoInputPos + 1]
    IN  IF c = 0 THEN s
        ELSE IF c = 10 \/ c = 13 THEN input_terminator(s)
        ELSE input_char(s, c)

\* the scripted branch: the next script character is consumed; a null is
\* skipped, 10 or 13 ends the loop, any other is appended and drawn
input_scripted(self) ==
    LET c == self.demoInput[self.demoInputPos + 1]
        s == [self EXCEPT !.demoInputPos =
                              (self.demoInputPos + 1) % Len(self.demoInput)]
    IN  IF c = 0 THEN s
        ELSE IF c = 10 \/ c = 13 THEN input_terminator(s)
        ELSE input_char(s, c)

\* the serial branch: nothing when no byte is available, else one byte
input_live(self, c) ==
    IF c = NoUnit THEN self
    ELSE IF c = 8 \/ c = 127 THEN input_backspace(self)
    ELSE IF c = 10 \/ c = 13 THEN input_terminator(self)
    ELSE input_char(self, c)

\* after the loop: self.print("\n"); return text
input_return(self) ==
    LET r == print(self, <<10>>)
    IN  IF r.err # "none" THEN r ELSE [r EXCEPT !.ret = <<r.text>>]

\* one iteration of the while loop, and what follows the loop when the
\* iteration breaks out of it
input_tick(self, phase, c) ==
    LET s1 == input_blink(self, phase)
        s2 == IF s1.err # "none" THEN s1
              ELSE IF input_is_scripted(s1) THEN input_scripted(s1)
              ELSE input_live(s1, c)
    IN  IF s2.err = "none" /\ s2.brk THEN input_return(s2) ELSE s2

\* if not prompt is None: self.print(prompt); text = ""
input_begin(self, prompt) ==
    [ (IF prompt = <<>> THEN self ELSE print(self, prompt)) EXCEPT !.text = <<>> ]

\* a whole input(prompt) call during which the serial line delivers the
\* units us[i ..], the tick counter being in its first phase in the odd
\* iterations; the call is over when an iteration breaks out or fails
RECURSIVE input_from(_, _, _)
input_from(self, us, i) ==
    IF i > Len(us) THEN self
    ELSE LET s1 == input_tick(self, i % 2 = 1, us[i])
         IN  IF s1.err # "none" \/ s1.brk THEN s1 ELSE input_from(s1, us, i + 1)

input_line(self, prompt, us) ==
    LET s0 == input_begin(self, prompt)
    IN  IF s0.err # "none" THEN s0 ELSE input_from(s0, us, 1)

(***************************************************************************)
(* The state machine: one action per API call                              *)
(***************************************************************************)

\* the object as the call finds it
Self ==
    [ line_width |-> line_width,
      line_count |-> line_count,
      chars_len  |-> chars_len,
      chars      |-> chars,
      cursor     |-> cursor,
      shown      |-> shown,
      demoInput  |-> demoInput,
      demoInputPos |-> demoInputPos,
      text       |-> input_text,
      brk        |-> FALSE,
      scrolls    |-> 0,
      redraws    |-> 0,
      direct     |-> 0,
      ret        |-> <<>>,
      err        |-> "none" ]

\* the call `op` with arguments (pos, text) or args ends leaving the
\* object as r (normally, returning r.ret, or by r.err)
Finish(after, op, pos, text, args) ==
    \E r \in {after} :
    /\ chars' = r.chars
    /\ cursor' = r.cursor
    /\ shown' = r.shown
    /\ last' = [ op |-> op, pos |-> pos, text |-> text, args |-> args,
                 cursor0 |-> cursor, chars0 |-> chars, running0 |-> running,
                 scrolls |-> r.scrolls, redraws |-> r.redraws,
                     direct |-> r.direct,
                 ret |-> r.ret, err |-> r.err ]
    /\ calls' = calls + 1
    /\ UNCHANGED <<line_width, line_count, chars_len,
                   demoInput, demoInputPos, input_text, units, pc,
                   running, quit>>

Return(r, op, pos, text) == Finish(r, op, pos, text, <<>>)

\* the object r was just constructed, or is a state the caller has brought
\* it to before the calls that are checked
Constructed(r) ==
    /\ line_width = r.line_width
    /\ line_count = r.line_count
    /\ chars_len = r.chars_len
    /\ chars = r.chars
    /\ cursor = r.cursor
    /\ shown = r.shown
    /\ demoInput = r.demoInput
    /\ demoInputPos = r.demoInputPos
    /\ input_text = <<>>
    /\ units = <<>>
    /\ pc = "idle"
    /\ last = [ op |-> "init", pos |-> 0, text |-> <<>>, args |-> <<>>,
                cursor0 |-> r.cursor, chars0 |-> r.chars, running0 |-> TRUE,
                scrolls |-> 0, redraws |-> 0, direct |-> 0,
                ret |-> <<>>, err |-> "none" ]
    /\ calls = 0
    /\ running = TRUE
    /\ quit = FALSE

CallCls == Return(cls(Self), "cls", 0, <<>>)

CallPrint(text) == Return(print(Self, text), "print", 0, text)

CallPrintAt(pos, text) == Return(print_at(Self, pos, text), "print_at", pos, text)

CallSet(x, y) == Finish(set(Self, x, y), "set", 0, <<>>, <<x, y>>)

CallReset(x, y) == Finish(reset(Self, x, y), "reset", 0, <<>>, <<x, y>>)

CallPoint(x, y) == Finish(point(Self, x, y), "point", 0, <<>>, <<x, y>>)

CallPeek(addr) == Finish(peek(Self, addr), "peek", 0, <<>>, <<addr>>)

CallPoke(addr, val) == Finish(poke(Self, addr, val), "poke", 0, <<>>, <<addr, val>>)

\* the buffer primitive called on its own
CallUpdateChar(pos, char) ==
    Finish(update_char(Self, pos, char), "_update_char", 0, <<>>, <<pos, char>>)

\* a whole input(prompt) call that consumes the units us
CallInputLine(prompt, us) ==
    Finish(input_line(Self, prompt, us), "input", 0, prompt, us)

\* _scroll() called on its own
CallScroll == Finish(scroll(Self), "_scroll", 0, <<>>, <<>>)

(***************************************************************************)
(* Spec: sequences of API calls on a fresh Runtime                         *)
(***************************************************************************)

\* number of API calls in a run
MaxCalls == 2

\* a run of line_width glyph codes
LineText(w) == [i \in 1 .. w |-> 65 + (i % 26)]

\* texts printed in the runs: a glyph, a newline, a backspace, the tab
\* code 255, a two-line text, a full line, and a text whose second
\* character is no cell code
SeqTexts(w) ==
    { <<65>>, <<10>>, <<8>>, <<255>>,
      <<65, 66, 10, 67, 68>>, LineText(w), <<66, 300>> }

\* texts given to print_at: code 255 and a two-line text
SeqAtTexts == { <<255>>, <<65, 66, 10, 67, 68>> }

\* positions given to print_at: the first and the last cell of the last
\* row, and one position on either side of the buffer
SeqPositions(w, l) == {-1, (l - 1) * w, w * l - 1, w * l}

\* pixels given to set, reset and point: one of the first cell and the
\* last one of the last cell
SeqPixels(w, l) == {<<1, 0>>, <<2 * w - 1, 3 * l - 1>>}

\* (addr, val) given to poke: a tab code into the second cell, a write
\* just below the window, and a value that is no cell code
SeqPokes == {<<VideoBase + 1, 200>>, <<VideoBase - 1, 65>>, <<VideoBase + 2, 256>>}

\* (prompt, units) of the input calls: "?" and A, B, backspace, return;
\* no prompt and a newline
SeqInputs == { <<(<<63>>), <<65, 66, 8, 13>>>>, <<(<<>>), <<10>>>> }

\* addresses given to peek: the last cell, and the first address above
\* the window
SeqPeeks(w, l) == {VideoBase + w * l - 1, VideoBase + w * l}

Init == \E mode \in Modes : Constructed(Runtime(mode))

Next ==
    /\ calls < MaxCalls
    /\ \/ CallCls
       \/ \E text \in SeqTexts(line_width) : CallPrint(text)
       \/ \E pos \in SeqPositions(line_width, line_count),
             text \in SeqAtTexts : CallPrintAt(pos, text)
       \/ \E px \in SeqPixels(line_width, line_count) : CallSet(px[1], px[2])
       \/ \E px \in SeqPixels(line_width, line_count) : CallReset(px[1], px[2])
       \/ \E px \in SeqPixels(line_width, line_count) : CallPoint(px[1], px[2])
       \/ \E pk \in SeqPokes : CallPoke(pk[1], pk[2])
       \/ \E addr \in SeqPeeks(line_width, line_count) : CallPeek(addr)
       \/ \E inp \in SeqInputs : CallInputLine(inp[1], inp[2])

Spec == Init /\ [][Next]_vars

(***************************************************************************)
(* SpecPrint: one print(text) call on an object whose cursor is on any     *)
(* cell.  On the cells of the first, second, middle, second-to-last and    *)
(* last row that lie in the first or last columns or in column 5 or 8 the  *)
(* buffer is blank or patterned and every text is printed; on the other    *)
(* cells the buffer is patterned and the cursor-move texts are printed.    *)
(***************************************************************************)

\* a buffer with no blank cell and no two equal rows, as a caller can
\* build it cell by cell with poke or print_at
Pattern(w, l) == [i \in 0 .. (w * l - 1) |-> 33 + (i % 95)]

TestRows(l) == {0, 1, l \div 2, l - 2, l - 1}

TestCols(w) == {0, 1, 2, 5, 8, w - 2, w - 1}

TestPositions(w, l) == {r * w + c : r \in TestRows(l), c \in TestCols(w)}

AllCodes == 0 .. 255

\* the cursor moves and their inverse pairs
MoveTexts ==
    { <<c>> : c \in 24 .. 29 }
      \cup { <<26, 27>>, <<27, 26>>, <<24, 25>>, <<25, 24>> }

\* the texts of the checked call: every single code, the cursor-move
\* pairs, a two-line text and a full line
PrintTexts(w) ==
    { <<c>> : c \in AllCodes }
      \cup MoveTexts
      \cup { <<65, 66, 10, 67, 68>>, LineText(w) }

InitPrint ==
    \E mode \in Modes :
        LET r == Runtime(mode)
            t == TestPositions(r.line_width, r.line_count)
        IN  \E p \in 0 .. (r.chars_len - 1) :
                \E b \in IF p \in t
                         THEN {r.chars, Pattern(r.line_width, r.line_count)}
                         ELSE {Pattern(r.line_width, r.line_count)} :
                    Constructed([r EXCEPT !.chars = b, !.shown = b, !.cursor = p])

NextPrint ==
    /\ calls < 1
    /\ \E text \in IF cursor \in TestPositions(line_width, line_count)
                   THEN PrintTexts(line_width)
                   ELSE MoveTexts :
          CallPrint(text)

SpecPrint == InitPrint /\ [][NextPrint]_vars

(***************************************************************************)
(* SpecConcat: consecutive print(text) calls on a patterned buffer, the    *)
(* cursor inside or at the end of the first row, or inside or on the      *)
(* second-to-last cell of the last row                                     *)
(***************************************************************************)

\* the texts: a letter; codes with an inner loop first, in the middle and
\* last; a text that raises at its second character
ConcatTexts ==
    { <<65>>, <<10, 66>>, <<65, 30, 66>>, <<31, 67, 13>>, <<66, 300>> }

ConcatPositions(w, l) == {5, w - 1, w * l - w + 3, w * l - 2}

InitConcat ==
    \E mode \in Modes :
        LET r == Runtime(mode)
            b == Pattern(r.line_width, r.line_count)
        IN  \E p \in ConcatPositions(r.line_width, r.line_count) :
                Constructed([r EXCEPT !.chars = b, !.shown = b, !.cursor = p])

NextConcat ==
    /\ calls < MaxCalls
    /\ \E text \in ConcatTexts : CallPrint(text)

SpecConcat == InitConcat /\ [][NextConcat]_vars

(***************************************************************************)
(* SpecMem: one set, reset, point, poke, peek, _update_char or _scroll     *)
(* call on an object whose buffer holds every code 0 .. 255, code i mod    *)
(* 256 in cell i, and whose cursor is on the seventh cell of the second    *)
(* row                                                                     *)
(***************************************************************************)

\* a buffer holding every code, as a caller can build it with poke
ByteBuffer(w, l) == [i \in 0 .. (w * l - 1) |-> i % 256]

\* pixel columns: all of them, and one on either side
PixelXs(w) == -1 .. (2 * w)

\* pixel rows: those of the cells 0 .. 255, those of the last row of
\* cells, and one on either side
PixelYs(w, l) == (-1 .. (3 * (256 \div w) - 1)) \cup ((3 * l - 3) .. (3 * l))

\* cells addressed by poke, peek and _update_char
MemPositions(w, l) == {0, 1, w - 1, w, w + 6, w * l - 1}

\* positions outside [0, chars_len) given to _update_char: the negative
\* indices a Python list accepts (-1 .. -chars_len) and one position on
\* either side of them
MemBadPositions(w, l) == {-1, -w, -(w * l), -(w * l) - 1, w * l}

\* codes given to _update_char: every code and one value on either side
MemCodes == AllCodes \cup {-1, 256}

\* (addr, val) given to poke: every code into the cells above, and
\* writes outside the window and of a value that is no code
MemPokes(w, l) ==
    { <<VideoBase + k, v>> : k \in MemPositions(w, l), v \in AllCodes }
      \cup { <<VideoBase - 1, 65>>, <<VideoBase + w * l, 65>>, <<0, 255>>,
             <<VideoBase - 1, 256>>, <<VideoBase, 256>> }

\* addresses given to peek: the cells above and addresses outside the window
MemPeeks(w, l) ==
    { VideoBase + k : k \in MemPositions(w, l) }
      \cup { -1, 0, VideoBase - 1, VideoBase + w * l }

InitMem ==
    \E mode \in Modes :
        LET r == Runtime(mode)
            b == ByteBuffer(r.line_width, r.line_count)
        IN  Constructed([r EXCEPT !.chars = b, !.shown = b,
                                  !.cursor = r.line_width + 6])

NextMem ==
    /\ calls < 1
    /\ \/ \E x \in PixelXs(line_width), y \in PixelYs(line_width, line_count) :
             CallSet(x, y)
       \/ \E x \in PixelXs(line_width), y \in PixelYs(line_width, line_count) :
             CallReset(x, y)
       \/ \E x \in PixelXs(line_width), y \in PixelYs(line_width, line_count) :
             CallPoint(x, y)
       \/ \E pk \in MemPokes(line_width, line_count) : CallPoke(pk[1], pk[2])
       \/ \E addr \in MemPeeks(line_width, line_count) : CallPeek(addr)
       \/ \E pos \in MemPositions(line_width, line_count)
                        \cup MemBadPositions(line_width, line_count),
             char \in MemCodes :
             CallUpdateChar(pos, char)
       \/ CallScroll

SpecMem == InitMem /\ [][NextMem]_vars

(***************************************************************************)
(* SpecInput: one input(prompt) call, tick by tick, on a fresh object or   *)
(* on one whose buffer is patterned and whose cursor is on the second to   *)
(* last cell; the input comes from the serial line or from a script        *)
(***************************************************************************)

\* number of loop iterations of _input in a run
MaxTicks == 3

\* the scripts: a null, a letter and a newline; a character 8 and a
\* carriage return
Scripts == { <<0, 72, 10>>, <<8, 13>> }

\* the prompts: None and "?"
Prompts == { <<>>, <<63>> }

\* what the serial line can deliver in the tick after n units: nothing, the
\* n-th letter, a backspace (8 or 127) or a terminator (10 or 13)
LiveUnits(n) == {NoUnit, 65 + n, 8, 127, 10, 13}

\* the input(prompt) call begins
CallInput(prompt) ==
    \E r \in {input_begin(Self, prompt)} :
        /\ pc \in {"idle", "returned"}
        /\ chars' = r.chars
        /\ cursor' = r.cursor
        /\ shown' = r.shown
        /\ input_text' = r.text
        /\ units' = <<>>
        /\ pc' = IF r.err # "none" THEN "failed" ELSE "editing"
        /\ last' = [ op |-> "input", pos |-> demoInputPos, text |-> prompt,
                     args |-> <<>>,
                     cursor0 |-> cursor, chars0 |-> chars,
                     running0 |-> running,
                     scrolls |-> r.scrolls, redraws |-> r.redraws,
                     direct |-> r.direct,
                     ret |-> r.ret, err |-> r.err ]
        /\ calls' = calls + 1
        /\ UNCHANGED <<line_width, line_count, chars_len, demoInput,
                       demoInputPos, running, quit>>

\* one loop iteration of the input() in progress has run with the tick
\* counter in the given phase and the unit c consumed
Ticked(phase, c) ==
    \E r \in {input_tick(Self, phase, c)} :
        /\ chars' = r.chars
        /\ cursor' = r.cursor
        /\ shown' = r.shown
        /\ demoInputPos' = r.demoInputPos
        /\ input_text' = r.text
        /\ units' = Append(units, c)
        /\ pc' = IF r.err # "none" THEN "failed"
                 ELSE IF r.brk THEN "returned" ELSE "editing"
        /\ last' = [ op |-> "tick", pos |-> demoInputPos, text |-> input_text,
                     args |-> <<phase, c>>,
                     cursor0 |-> cursor, chars0 |-> chars,
                     running0 |-> running,
                     scrolls |-> r.scrolls, redraws |-> r.redraws,
                     direct |-> r.direct,
                     ret |-> r.ret, err |-> r.err ]
        /\ UNCHANGED <<line_width, line_count, chars_len, demoInput, calls,
                       running, quit>>

\* a loop iteration reading the serial line
TickLive(phase, c) ==
    /\ pc = "editing"
    /\ Len(units) < MaxTicks
    /\ ~input_is_scripted(Self)
    /\ Ticked(phase, c)

\* a loop iteration reading the script; the tick record keeps in pos the
\* replay position the iteration found
TickScripted(phase) ==
    /\ pc = "editing"
    /\ Len(units) < MaxTicks
    /\ input_is_scripted(Self)
    /\ Ticked(phase, demoInput[demoInputPos + 1])

InitInput ==
    \E mode \in Modes, script \in {<<>>} \cup Scripts :
        LET r == Runtime(mode)
            b == Pattern(r.line_width, r.line_count)
        IN  \/ Constructed([r EXCEPT !.demoInput = script])
            \/ Constructed([r EXCEPT !.demoInput = script,
                                     !.chars = b, !.shown = b,
                                     !.cursor = r.chars_len - 2])

NextInput ==
    \/ calls < 1 /\ \E prompt \in Prompts : CallInput(prompt)
    \/ \E phase \in BOOLEAN, c \in LiveUnits(Len(units)) : TickLive(phase, c)
    \/ \E phase \in BOOLEAN : TickScripted(phase)

SpecInput == InitInput /\ [][NextInput]_vars

(***************************************************************************)
(* SpecScript: consecutive input(prompt) calls, tick by tick, fed by a     *)
(* script, on a fresh object or on one whose buffer is patterned and whose *)
(* cursor is on the seventh cell of the second row                         *)
(***************************************************************************)

\* the scripts: two lines, the first after a null; one line; a line of
\* nulls only and a second line
ReplayScripts ==
    { <<0, 72, 10, 73, 13>>, <<65, 10>>, <<0, 0, 13, 66, 10>> }

InitScript ==
    \E mode \in Modes, script \in ReplayScripts :
        LET r == Runtime(mode)
            b == Pattern(r.line_width, r.line_count)
        IN  \/ Constructed([r EXCEPT !.demoInput = script])
            \/ Constructed([r EXCEPT !.demoInput = script,
                                     !.chars = b, !.shown = b,
                                     !.cursor = r.line_width + 6])

NextScript ==
    \/ calls < MaxCalls /\ \E prompt \in Prompts : CallInput(prompt)
    \/ \E phase \in BOOLEAN : TickScripted(phase)

SpecScript == InitScript /\ [][NextScript]_vars

(***************************************************************************)
(* SpecReplay: SpecScript's calls and ticks with short scripts, on a fresh *)
(* object or on a patterned buffer with the cursor on the second-to-last   *)
(* cell.  The loop of _input never blocks: while an input() is in progress *)
(* and has not failed, its next iteration is taken.                        *)
(***************************************************************************)

\* the scripts: two letters and a newline; a null and a carriage return; a
\* letter, a newline and a null; a letter and a null, no terminator
ReplayLines == { <<65, 66, 10>>, <<0, 13>>, <<72, 10, 0>>, <<65, 0>> }

InitReplay ==
    \E mode \in Modes, script \in ReplayLines :
        LET r == Runtime(mode)
            b == Pattern(r.line_width, r.line_count)
        IN  \/ Constructed([r EXCEPT !.demoInput = script])
            \/ Constructed([r EXCEPT !.demoInput = script,
                                     !.chars = b, !.shown = b,
                                     !.cursor = r.chars_len - 2])

NextReplay ==
    \/ calls < MaxCalls /\ \E prompt \in Prompts : CallInput(prompt)
    \/ \E phase \in BOOLEAN : TickScripted(phase)

SpecReplay == InitReplay /\ [][NextReplay]_vars

(***************************************************************************)
(* SpecSdl: the backend with a host event loop (src/src/lib_sdl).  Its     *)
(* object has the flag self.running; the host can put a quit request in    *)
(* the event queue at any time; every poll (sdl2.ext.get_events) empties   *)
(* the queue.  cls, print, print_at, tab, set, reset, point, peek, poke    *)
(* and input begin with `if not self._keep_running(): raise                *)
(* KeyboardInterrupt()`; their bodies are those of lib.  delay, wait and   *)
(* the loop of input poll the queue once per iteration; the tick counter   *)
(* of the loop is in its first phase in the odd iterations.                *)
(***************************************************************************)

\* self.running after the poll of _keep_running: the queue is read only
\* while the flag is set, a quit request in it clears the flag
poll_running(run, q) == run /\ ~q

\* a check that lets every call go on
keep_running_blind(run, q) == TRUE

\* _keep_running(): the flag after the poll
keep_running(run, q) == poll_running(run, q)

\* the quit request left in the queue by _keep_running: get_events() takes
\* every pending event
events_after(run, q) == IF run THEN FALSE ELSE q

\* raise KeyboardInterrupt() with the object as it is
Interrupted(self) == [self EXCEPT !.err = "KeyboardInterrupt"]

\* no call is in progress
SdlIdle == pc \in {"idle", "returned"}

\* the call `op` ends leaving the object as r and the flag as run
SdlEnd(after, op, pos, text, args, run) ==
    \E r \in {after} :
    /\ chars' = r.chars
    /\ cursor' = r.cursor
    /\ shown' = r.shown
    /\ last' = [ op |-> op, pos |-> pos, text |-> text, args |-> args,
                 cursor0 |-> cursor, chars0 |-> chars, running0 |-> running,
                 scrolls |-> r.scrolls, redraws |-> r.redraws,
                 direct |-> r.direct,
                 ret |-> r.ret, err |-> r.err ]
    /\ calls' = calls + 1
    /\ running' = run
    /\ quit' = events_after(running, quit)
    /\ UNCHANGED <<line_width, line_count, chars_len,
                   demoInput, demoInputPos, input_text, units, pc>>

\* a call that begins with the _keep_running() check and whose body
\* leaves the object as `after`
SdlCall(after, op, pos, text, args) ==
    /\ SdlIdle
    /\ IF keep_running(running, quit)
       THEN SdlEnd(after, op, pos, text, args, running)
       ELSE SdlEnd(Interrupted(Self), op, pos, text, args, FALSE)

SdlCls == SdlCall(cls(Self), "cls", 0, <<>>, <<>>)

SdlPrint(text) == SdlCall(print(Self, text), "print", 0, text, <<>>)

SdlPrintAt(pos, text) ==
    SdlCall(print_at(Self, pos, text), "print_at", pos, text, <<>>)

\* print_at whose quit request arrives after its own check: the cursor is
\* set, and the check of the print it calls raises
SdlPrintAtLate(pos, text) ==
    /\ SdlIdle
    /\ keep_running(running, quit)
    /\ pos >= 0 /\ pos < line_width * line_count
    /\ SdlEnd(Interrupted([Self EXCEPT !.cursor = pos]),
              "print_at", pos, text, <<>>, FALSE)

SdlTab(n) ==
    SdlCall(IF tab(n) = -1 THEN [Self EXCEPT !.err = "AssertionError"]
            ELSE [Self EXCEPT !.ret = <<tab(n)>>],
            "tab", 0, <<>>, <<n>>)

SdlSet(x, y) == SdlCall(set(Self, x, y), "set", 0, <<>>, <<x, y>>)

SdlReset(x, y) == SdlCall(reset(Self, x, y), "reset", 0, <<>>, <<x, y>>)

SdlPoint(x, y) == SdlCall(point(Self, x, y), "point", 0, <<>>, <<x, y>>)

SdlPeek(addr) == SdlCall(peek(Self, addr), "peek", 0, <<>>, <<addr>>)

SdlPoke(addr, val) ==
    SdlCall(poke(Self, addr, val), "poke", 0, <<>>, <<addr, val>>)

\* input(prompt) begins: the check, the prompt, text = ""
SdlInput(prompt) ==
    \E go \in {keep_running(running, quit)} :
    \E r \in {IF go THEN input_begin(Self, prompt) ELSE Interrupted(Self)} :
        /\ SdlIdle
        /\ chars' = r.chars
        /\ cursor' = r.cursor
        /\ shown' = r.shown
        /\ input_text' = r.text
        /\ units' = <<>>
        /\ pc' = IF r.err = "KeyboardInterrupt" THEN "idle"
                 ELSE IF r.err # "none" THEN "failed" ELSE "editing"
        /\ last' = [ op |-> "input", pos |-> demoInputPos, text |-> prompt,
                     args |-> <<>>,
                     cursor0 |-> cursor, chars0 |-> chars,
                     running0 |-> running,
                     scrolls |-> r.scrolls, redraws |-> r.redraws,
                     direct |-> r.direct,
                     ret |-> r.ret, err |-> r.err ]
        /\ calls' = calls + 1
        /\ running' = IF go THEN running ELSE FALSE
        /\ quit' = events_after(running, quit)
        /\ UNCHANGED <<line_width, line_count, chars_len, demoInput,
                       demoInputPos>>

\* one iteration of the loop of _input: the blink, then the poll (of
\* _delay(200) with a script, of the loop itself without), which raises
\* on a quit request, then the unit c: a script character, or nothing, a
\* typed character, the backspace key (8) or the return key (13).  With
\* `late` the quit request arrives after the poll and is seen by the check
\* of the print("\n") that follows the loop.
sdl_input_tick(self, phase, c, q, late) ==
    LET s1 == input_blink(self, phase)
        s2 == IF input_is_scripted(s1) THEN input_scripted(s1)
              ELSE input_live(s1, c)
    IN  IF s1.err # "none" THEN s1
        ELSE IF q THEN Interrupted(s1)
        ELSE IF s2.err = "none" /\ s2.brk
             THEN (IF late THEN Interrupted(s2) ELSE input_return(s2))
        ELSE s2

SdlTick(phase, c, late) ==
    \E r \in {sdl_input_tick(Self, phase, c, quit, late)} :
        /\ pc = "editing"
        /\ Len(units) < MaxTicks
        /\ late => (~quit /\ r.err = "KeyboardInterrupt")
        /\ chars' = r.chars
        /\ cursor' = r.cursor
        /\ shown' = r.shown
        /\ demoInputPos' = r.demoInputPos
        /\ input_text' = r.text
        /\ units' = IF quit THEN units ELSE Append(units, c)
        /\ pc' = IF r.err = "KeyboardInterrupt" THEN "idle"
                 ELSE IF r.err # "none" THEN "failed"
                 ELSE IF r.brk THEN "returned" ELSE "editing"
        /\ last' = [ op |-> "tick", pos |-> demoInputPos, text |-> input_text,
                     args |-> <<phase, c>>,
                     cursor0 |-> cursor, chars0 |-> chars,
                     running0 |-> running,
                     scrolls |-> r.scrolls, redraws |-> r.redraws,
                     direct |-> r.direct,
                     ret |-> r.ret, err |-> r.err ]
        /\ running' = IF r.err = "KeyboardInterrupt" THEN FALSE ELSE running
        /\ quit' = IF r.err \in {"none", "KeyboardInterrupt"} THEN FALSE
                   ELSE quit
        /\ UNCHANGED <<line_width, line_count, chars_len, demoInput, calls>>

\* delay(ms) begins
SdlDelay ==
    /\ SdlIdle
    /\ pc' = "delaying"
    /\ last' = [ op |-> "delay", pos |-> 0, text |-> <<>>, args |-> <<>>,
                 cursor0 |-> cursor, chars0 |-> chars, running0 |-> running,
                 scrolls |-> 0, redraws |-> 0, direct |-> 0,
                 ret |-> <<>>, err |-> "none" ]
    /\ calls' = calls + 1
    /\ UNCHANGED <<line_width, line_count, chars_len, chars, cursor, shown,
                   demoInput, demoInputPos, input_text, units, running, quit>>

\* an iteration of the loop of _delay that ends it: a quit request clears
\* the flag and raises; without one the time has elapsed
DelayPoll ==
    /\ pc = "delaying"
    /\ pc' = "idle"
    /\ running' = IF quit THEN FALSE ELSE running
    /\ quit' = FALSE
    /\ last' = IF quit THEN [last EXCEPT !.err = "KeyboardInterrupt"] ELSE last
    /\ UNCHANGED <<line_width, line_count, chars_len, chars, cursor, shown,
                   demoInput, demoInputPos, input_text, units, calls>>

\* wait() begins
SdlWait ==
    /\ SdlIdle
    /\ pc' = "waiting"
    /\ last' = [ op |-> "wait", pos |-> 0, text |-> <<>>, args |-> <<>>,
                 cursor0 |-> cursor, chars0 |-> chars, running0 |-> running,
                 scrolls |-> 0, redraws |-> 0, direct |-> 0,
                 ret |-> <<>>, err |-> "none" ]
    /\ calls' = calls + 1
    /\ UNCHANGED <<line_width, line_count, chars_len, chars, cursor, shown,
                   demoInput, demoInputPos, input_text, units, running, quit>>

\* the iteration of `while self._keep_running(): pass` that ends it: the
\* check is false, the loop is left and wait returns None
WaitPoll ==
    /\ pc = "waiting"
    /\ ~keep_running(running, quit)
    /\ pc' = "idle"
    /\ running' = poll_running(running, quit)
    /\ quit' = events_after(running, quit)
    /\ UNCHANGED <<line_width, line_count, chars_len, chars, cursor, shown,
                   demoInput, demoInputPos, input_text, units, last, calls>>

\* the user closes the window: a quit request enters the event queue
HostQuit ==
    /\ ~quit
    /\ quit' = TRUE
    /\ UNCHANGED <<line_width, line_count, chars_len, chars, cursor, shown,
                   demoInput, demoInputPos, input_text, units, pc, last,
                   calls, running>>

\* the script of the scripted objects: H, newline
SdlScripts == { <<72, 10>> }

\* what a tick of the live loop can find: a typed character, the return
\* key
SdlUnits == {65, 13}

\* the objects are Runtime(32), with and without a script
InitSdl ==
    \E script \in {<<>>} \cup SdlScripts :
        Constructed([Runtime(32) EXCEPT !.demoInput = script])

NextSdl ==
    \/ /\ calls < MaxCalls
       /\ \/ SdlCls
          \/ SdlPrint(<<65>>)
          \/ \E pos \in {line_width, chars_len} : SdlPrintAt(pos, <<66>>)
          \/ SdlPrintAtLate(line_width, <<66>>)
          \/ \E n \in {5, 64} : SdlTab(n)
          \/ SdlSet(1, 0)
          \/ SdlReset(1, 0)
          \/ SdlPoint(1, 0)
          \/ SdlPeek(VideoBase)
          \/ SdlPoke(VideoBase + 1, 200)
          \/ \E prompt \in Prompts : SdlInput(prompt)
          \/ SdlDelay
          \/ SdlWait
    \/ \E late \in BOOLEAN,
          c \in (IF input_is_scripted(Self)
                 THEN {demoInput[demoInputPos + 1]} ELSE SdlUnits) :
           SdlTick(Len(units) % 2 = 0, c, late)
    \/ DelayPoll
    \/ WaitPoll
    \/ HostQuit

SpecSdl == InitSdl /\ [][NextSdl]_vars

(***************************************************************************)
(* Properties                                                              *)
(***************************************************************************)

\* the last call was print(<<c>>) for one code c, and what it started from
PrintedOne == last.op = "print" /\ Len(last.text) = 1
Code == last.text[1]
P0 == last.cursor0
Row0 == last.cursor0 \div line_width
Col0 == last.cursor0 % line_width
LastRow == line_count - 1

\* the codes print() draws as glyphs
IsGlyph(c) ==
    /\ c \in AllCodes
    /\ c \notin {8, 10, 13}
    /\ c \notin 24 .. 31
    /\ c \notin TabBase .. 255

\* b shifted up one row, the last row blank
ShiftUp(b) ==
    [i \in 0 .. (chars_len - 1) |->
        IF i < chars_len - line_width THEN b[i + line_width] ELSE 32]

\* b with the cells lo .. hi set to 32
Blanked(b, lo, hi) ==
    [i \in 0 .. (chars_len - 1) |-> IF i >= lo /\ i <= hi THEN 32 ELSE b[i]]

\* C1: after any sequence of cls, print and print_at calls on a fresh
\* Runtime the cursor is in [0, chars_len) each time a call returns.
C1_CursorInRange == cursor >= 0 /\ cursor < chars_len

\* C2: printing one glyph code with the cursor at p stores it in cell p and
\* moves the cursor to p+1; from the last cell the buffer scrolls exactly
\* once, the cursor becomes the start of the last row, the code ends in the
\* last cell of the second-to-last row and the last row is blank.
C2_GlyphAdvance ==
    (PrintedOne /\ IsGlyph(Code)) =>
        /\ last.err = "none"
        /\ IF P0 + 1 < chars_len
           THEN /\ chars = [last.chars0 EXCEPT ![P0] = Code]
                /\ cursor = P0 + 1
                /\ last.scrolls = 0
           ELSE /\ last.scrolls = 1
                /\ cursor = LastRow * line_width
                /\ chars = ShiftUp([last.chars0 EXCEPT ![P0] = Code])
                /\ chars[LastRow * line_width - 1] = Code
                /\ \A i \in (LastRow * line_width) .. (chars_len - 1) : chars[i] = 32

C2_Witness ==
    /\ PrintedOne /\ Code = 65
    /\ P0 = chars_len - 1
    /\ last.chars0[0] # 32
    /\ last.scrolls = 1
    /\ chars[chars_len - line_width - 1] = 65

\* C3: printing code 10 or 13 with the cursor at column c of row r blanks
\* cells c .. line_width-1 of row r and leaves the rest of the buffer alone;
\* then below the last row the cursor becomes the start of row r+1 without
\* a scroll, and on the last row the buffer scrolls once and the cursor
\* becomes the start of the last row.  Instance: on a 4 x 2 blank buffer
\* with the cursor at 0, print("AB\nCD") gives A,B,32,32,C,D,32,32 and
\* cursor 6.
C3_Newline ==
    /\ (PrintedOne /\ Code \in {10, 13}) =>
          /\ last.err = "none"
          /\ IF Row0 < LastRow
             THEN /\ chars = Blanked(last.chars0, P0, Row0 * line_width + line_width - 1)
                  /\ cursor = (Row0 + 1) * line_width
                  /\ last.scrolls = 0
             ELSE /\ chars = ShiftUp(Blanked(last.chars0, P0, chars_len - 1))
                  /\ cursor = LastRow * line_width
                  /\ last.scrolls = 1
    /\ LET r == print(NewRuntime(4, 2), <<65, 66, 10, 67, 68>>)
       IN  /\ r.chars = [i \in 0 .. 7 |-> <<65, 66, 32, 32, 67, 68, 32, 32>>[i + 1]]
           /\ r.cursor = 6
           /\ r.err = "none"

C3_Witness ==
    /\ PrintedOne /\ Code = 13
    /\ Row0 = LastRow /\ Col0 = 5
    /\ last.chars0[P0] # 32
    /\ last.scrolls = 1
    /\ chars[P0 - line_width] = 32
    /\ chars[P0 - line_width - 1] = last.chars0[P0 - 1]

\* C4: printing one code of 191..255 from any cursor position leaves the
\* cursor's row unchanged, never decreases its column and leaves the column
\* below line_width, in both modes.
C4_TabKeepsRow ==
    (PrintedOne /\ Code \in TabBase .. 255) =>
        /\ cursor \div line_width = Row0
        /\ cursor % line_width >= Col0
        /\ cursor % line_width < line_width

\* C5: printing tab code 191+t with t < line_width from column c of row r
\* puts the cursor on column t of row r when c < t and leaves it where it
\* is when c >= t; no buffer cell changes.
C5_TabWithinRow ==
    (PrintedOne /\ Code \in TabBase .. 255 /\ Code - TabBase < line_width) =>
        /\ last.err = "none"
        /\ cursor = IF Col0 < Code - TabBase
                    THEN Row0 * line_width + (Code - TabBase)
                    ELSE P0
        /\ chars = last.chars0
        /\ last.scrolls = 0

C5_Witness ==
    /\ PrintedOne /\ Code = TabBase + 5
    /\ Col0 = 2 /\ Row0 = 1
    /\ cursor = line_width + 5

\* C6: printing exactly line_width glyph codes from column 0 of row r: below
\* the last row there is no scroll, row r holds the text and the cursor is
\* at column 0 of row r+1; on the last row there is exactly one scroll, the
\* text is in the row above the last, the last row is blank and the cursor
\* is at the start of the last row.
C6_FullLine ==
    (last.op = "print" /\ last.text = LineText(line_width) /\ Col0 = 0) =>
        /\ last.err = "none"
        /\ IF Row0 < LastRow
           THEN /\ last.scrolls = 0
                /\ cursor = (Row0 + 1) * line_width
                /\ \A i \in 0 .. (chars_len - 1) :
                      chars[i] = IF i \div line_width = Row0
                                 THEN last.text[i - P0 + 1]
                                 ELSE last.chars0[i]
           ELSE /\ last.scrolls = 1
                /\ cursor = LastRow * line_width
                /\ \A i \in 0 .. (chars_len - 1) :
                      chars[i] = IF i \div line_width = LastRow THEN 32
                                 ELSE IF i \div line_width = LastRow - 1
                                      THEN last.text[(i % line_width) + 1]
                                      ELSE last.chars0[i + line_width]

C6_Witness ==
    /\ last.op = "print" /\ last.text = LineText(line_width)
    /\ Col0 = 0 /\ Row0 = LastRow
    /\ last.chars0[0] # 32
    /\ last.scrolls = 1
    /\ chars[chars_len - 1] = 32
    /\ chars[chars_len - line_width - 1] = last.text[line_width]

\* C7: printing code 8 with the cursor at p moves the cursor to
\* (p-1) mod chars_len and sets the cell there to 32; no other cell changes
\* and nothing scrolls.
C7_Backspace ==
    (PrintedOne /\ Code = 8) =>
        /\ last.err = "none"
        /\ cursor = (P0 - 1) % chars_len
        /\ chars = [last.chars0 EXCEPT ![(P0 - 1) % chars_len] = 32]
        /\ last.scrolls = 0

C7_Witness ==
    /\ PrintedOne /\ Code = 8
    /\ P0 = 0
    /\ cursor = chars_len - 1
    /\ last.chars0[chars_len - 1] # 32
    /\ chars[chars_len - 1] = 32

\* C8: printing code 30 with the cursor at p blanks cells p .. end of p's
\* row, printing code 31 blanks cells p .. chars_len-1; the cursor and every
\* other cell are unchanged.
C8_ClearToEnd ==
    /\ (PrintedOne /\ Code = 30) =>
          /\ last.err = "none"
          /\ cursor = P0
          /\ chars = Blanked(last.chars0, P0, Row0 * line_width + line_width - 1)
          /\ last.scrolls = 0
    /\ (PrintedOne /\ Code = 31) =>
          /\ last.err = "none"
          /\ cursor = P0
          /\ chars = Blanked(last.chars0, P0, chars_len - 1)
          /\ last.scrolls = 0

C8_Witness ==
    /\ PrintedOne /\ Code = 30
    /\ Row0 = 1 /\ Col0 = 5
    /\ last.chars0[P0] # 32
    /\ chars[P0] = 32 /\ chars[2 * line_width - 1] = 32
    /\ chars[P0 - 1] # 32 /\ chars[2 * line_width] # 32

\* C9: from every cursor position, printing 26 then 27, 27 then 26, 24 then
\* 25 or 25 then 24 returns the cursor to where it was.
C9_MovesInverse ==
    (last.op = "print"
       /\ last.text \in {<<26, 27>>, <<27, 26>>, <<24, 25>>, <<25, 24>>}) =>
        /\ last.err = "none"
        /\ cursor = P0

C9_Witness ==
    /\ last.op = "print" /\ last.text = <<26, 27>>
    /\ Row0 = LastRow /\ Col0 = line_width - 1
    /\ cursor = P0

\* C10: codes 24 and 25 change only the column, by -1 or +1 modulo
\* line_width; codes 26 and 27 change only the row, by +1 or -1 modulo
\* line_count; code 28 sets the cursor to 0; code 29 sets it to the first
\* cell of its row.  None of them changes a buffer cell or scrolls.
C10_CursorMoves ==
    (PrintedOne /\ Code \in 24 .. 29) =>
        /\ last.err = "none"
        /\ chars = last.chars0
        /\ last.scrolls = 0
        /\ cursor =
             CASE Code = 24 -> Row0 * line_width + ((Col0 - 1) % line_width)
               [] Code = 25 -> Row0 * line_width + ((Col0 + 1) % line_width)
               [] Code = 26 -> ((Row0 + 1) % line_count) * line_width + Col0
               [] Code = 27 -> ((Row0 - 1) % line_count) * line_width + Col0
               [] Code = 28 -> 0
               [] Code = 29 -> Row0 * line_width

C10_Witness ==
    /\ PrintedOne /\ Code = 24
    /\ Row0 = 1 /\ Col0 = 0
    /\ cursor = 2 * line_width - 1
    /\ chars = last.chars0

\* the object as the last call found it (its surface aside)
Pre == [Self EXCEPT !.chars = last.chars0, !.cursor = last.cursor0]

\* C11: cls() in any reachable state leaves every cell 32 and the cursor 0,
\* which is the state of a freshly constructed Runtime, and the surface is
\* fully cleared.
C11_ClsResets ==
    last.op = "cls" =>
        /\ last.err = "none"
        /\ \A i \in 0 .. (chars_len - 1) : chars[i] = 32
        /\ cursor = 0
        /\ chars = NewRuntime(line_width, line_count).chars
        /\ cursor = NewRuntime(line_width, line_count).cursor
        /\ \A i \in 0 .. (chars_len - 1) : shown[i] = Blank

C11_Witness ==
    /\ last.op = "cls"
    /\ last.cursor0 = line_width + 2
    /\ last.chars0[0] = 65 /\ last.chars0[line_width] = 67
    /\ chars[0] = 32 /\ chars[line_width] = 32
    /\ cursor = 0

\* C12: print_at(pos, text) with pos in [0, chars_len) has the effect of
\* setting the cursor to pos and then print(text), whatever the cursor was;
\* with pos outside [0, chars_len) it fails and leaves cursor and buffer
\* unchanged.
C12_PrintAt ==
    last.op = "print_at" =>
        IF last.pos >= 0 /\ last.pos < chars_len
        THEN LET r == print([Pre EXCEPT !.cursor = last.pos], last.text)
             IN  /\ chars = r.chars
                 /\ cursor = r.cursor
                 /\ last.err = r.err
                 /\ last.scrolls = r.scrolls
        ELSE /\ last.err = "AssertionError"
             /\ chars = last.chars0
             /\ cursor = last.cursor0

C12_Witness ==
    /\ last.op = "print_at" /\ last.pos = chars_len - 1
    /\ last.text = <<65, 66, 10, 67, 68>>
    /\ last.cursor0 = 1 /\ last.chars0[0] = 65
    /\ last.scrolls = 2
    /\ cursor = chars_len - line_width + 2
    /\ chars[chars_len - (2 * line_width) - 1] = 65

\* the pixel call that was made last, and the cell and bit it names
PixelX == last.args[1]
PixelY == last.args[2]
InPixelDomain ==
    /\ PixelX >= 0 /\ PixelX < 2 * line_width
    /\ PixelY >= 0 /\ PixelY < 3 * line_count
Cell0 == (PixelY \div 3) * line_width + (PixelX \div 2)
BitNo == 2 * (PixelY % 3) + (PixelX % 2)
B0 == last.chars0[Cell0]

\* bit n of b is set
HasBit(b, n) == (b \div (2 ^ n)) % 2 = 1

\* b if bit 7 of b is set, else 0x80
GraphicsBase(b) == IF HasBit(b, 7) THEN b ELSE 128

\* the six pixels of the cell of the last pixel call
CellPixels ==
    { <<2 * (PixelX \div 2) + dx, 3 * (PixelY \div 3) + dy>> :
        dx \in 0 .. 1, dy \in 0 .. 2 }

\* C13: for every valid (x, y) and every cell content: after set(x, y),
\* point(x, y) is true; after reset(x, y), point(x, y) is false; for each of
\* the other 5 pixels of the same cell point returns after the call what it
\* returned before it.
C13_SetResetPoint ==
    (last.op \in {"set", "reset"} /\ InPixelDomain) =>
        /\ point(Self, PixelX, PixelY).ret = <<last.op = "set">>
        /\ \A px \in CellPixels \ {<<PixelX, PixelY>>} :
              point(Self, px[1], px[2]).ret = point(Pre, px[1], px[2]).ret

C13_Witness ==
    /\ last.op = "set" /\ InPixelDomain
    /\ B0 = 170 /\ BitNo = 0
    /\ chars[Cell0] = 171
    /\ point(Self, PixelX + 1, PixelY).ret = <<TRUE>>
    /\ point(Self, PixelX, PixelY + 1).ret = <<FALSE>>

C16_PixelDomain ==
    last.op \in {"set", "reset", "point"} =>
        IF InPixelDomain
        THEN /\ last.err = "none"
             /\ Cell0 >= 0 /\ Cell0 < chars_len
             /\ pixel_pos(Pre, PixelX, PixelY) >= 0
             /\ pixel_pos(Pre, PixelX, PixelY) < chars_len
        ELSE /\ last.err = "AssertionError"
             /\ chars = last.chars0
             /\ cursor = last.cursor0
             /\ last.redraws = 0

C16_Witness ==
    /\ last.op = "reset"
    /\ PixelX = 2 * line_width /\ PixelY = 0
    /\ last.err = "AssertionError"
    /\ chars = last.chars0

\* addresses outside the window
OutsideAddrs == {-1, 0, VideoBase - 1, VideoBase + chars_len, 65535}

\* C17: after any sequence of cls, print, print_at, set, reset and poke
\* calls, peek(15360+k) returns the code held by buffer cell k for every k
\* in [0, chars_len); peek of an address outside the window returns 0; peek
\* never fails and changes neither the buffer nor the cursor.
C17_PeekReadsBuffer ==
    /\ \E self \in {Self} :
          /\ \A k \in 0 .. (chars_len - 1) :
                \E r \in {peek(self, VideoBase + k)} :
                    r.ret = <<chars[k]>> /\ r.err = "none" /\ r.cursor = cursor
          /\ \A a \in OutsideAddrs :
                \E r \in {peek(self, a)} :
                    r.ret = <<0>> /\ r.err = "none" /\ r.cursor = cursor
    /\ last.op = "peek" =>
          /\ last.err = "none"
          /\ chars = last.chars0
          /\ cursor = last.cursor0
          /\ last.redraws = 0
          /\ last.ret =
                IF last.args[1] >= VideoBase /\ last.args[1] < VideoBase + chars_len
                THEN <<last.chars0[last.args[1] - VideoBase]>>
                ELSE <<0>>

C17_Witness ==
    /\ last.op = "peek"
    /\ last.args = <<VideoBase + chars_len - 1>>
    /\ last.ret = <<160>>

\* C18: for every k in [0, chars_len) and v in [0, 255], poke(15360+k, v)
\* followed by peek(15360+k) returns v, and the poke changes no other cell
\* and not the cursor, v being stored raw; a poke outside the window
\* changes nothing; poke does not fail.
C18_PokePeek ==
    (last.op = "poke" /\ last.args[2] \in AllCodes) =>
        LET addr == last.args[1]
            v == last.args[2]
        IN  /\ last.err = "none"
            /\ cursor = last.cursor0
            /\ IF addr >= VideoBase /\ addr < VideoBase + chars_len
               THEN /\ peek(Self, addr).ret = <<v>>
                    /\ chars = [last.chars0 EXCEPT ![addr - VideoBase] = v]
               ELSE /\ chars = last.chars0
                    /\ last.redraws = 0

C18_Witness ==
    /\ last.op = "poke"
    /\ last.args = <<VideoBase + line_width - 1, 10>>
    /\ last.chars0[line_width - 1] # 10
    /\ chars[line_width - 1] = 10
    /\ cursor = line_width + 6

\* the last call was _update_char(pos, code), and the same call made again
UpdatedPos == last.args[1]
UpdatedCode == last.args[2]
UpdatedAgain == update_char(Self, UpdatedPos, UpdatedCode)
UpdatedInDomain ==
    /\ UpdatedPos >= 0 /\ UpdatedPos < chars_len
    /\ UpdatedCode \in AllCodes

\* C19 as stated: for every pos, code and prior content of the cell, two
\* _update_char(pos, code) calls in a row give exactly one redraw in total,
\* and the cell then holds code.
C19_OneRedraw ==
    (last.op = "_update_char" /\ UpdatedInDomain) =>
        /\ last.redraws + UpdatedAgain.redraws = 1
        /\ UpdatedAgain.chars[UpdatedPos] = UpdatedCode

\* C19: for every pos in [0, chars_len) and code in [0, 255], two
\* _update_char(pos, code) calls in a row give exactly one redraw in total
\* when the cell held another code and none when it held code already; the
\* second call never redraws, and the cell then holds code.
C19_RedrawIffChanged ==
    (last.op = "_update_char" /\ UpdatedInDomain) =>
        /\ last.err = "none" /\ UpdatedAgain.err = "none"
        /\ last.redraws = IF last.chars0[UpdatedPos] = UpdatedCode THEN 0 ELSE 1
        /\ UpdatedAgain.redraws = 0
        /\ chars = [last.chars0 EXCEPT ![UpdatedPos] = UpdatedCode]
        /\ UpdatedAgain.chars[UpdatedPos] = UpdatedCode
        /\ shown[UpdatedPos] = UpdatedCode

C19_Witness ==
    /\ last.op = "_update_char"
    /\ UpdatedPos = line_width + 6 /\ UpdatedCode = 200
    /\ last.chars0[UpdatedPos] # 200
    /\ last.redraws = 1
    /\ chars[UpdatedPos] = 200

\* what a unit is to the editor.  The serial line delivers 8 and 127 as
\* backspaces; the script delivers a null as nothing and every character
\* but 10 and 13, the characters 8 and 127 too, as a printable unit
UnitKind(c) ==
    IF c = NoUnit THEN "nothing"
    ELSE IF c = 10 \/ c = 13 THEN "terminator"
    ELSE IF demoInput # <<>> THEN (IF c = 0 THEN "nothing" ELSE "printable")
    ELSE IF c = 8 \/ c = 127 THEN "backspace"
    ELSE "printable"

\* the printable units of us[i ..] added to acc, each backspace cancelling
\* the last surviving one
RECURSIVE EditFrom(_, _, _)
EditFrom(us, i, acc) ==
    IF i > Len(us) THEN acc
    ELSE EditFrom(us, i + 1,
             IF UnitKind(us[i]) = "printable" THEN Append(acc, us[i])
             ELSE IF UnitKind(us[i]) = "backspace" /\ acc # <<>>
                  THEN SubSeq(acc, 1, Len(acc) - 1)
             ELSE acc)

\* the last loop iteration of input(): its unit, the text before it
TickUnit == last.args[2]
TickPhase == last.args[1]
Text0 == last.text

\* C20: in the line editor of input(), a printable unit is appended to the
\* text, written at the cursor cell and the cursor advances by 1; a
\* backspace with non-empty text removes the last character of the text,
\* blanks the cursor cell and the cell before it and moves the cursor back
\* by 1; a backspace with empty text changes neither text nor cursor; a
\* terminator blanks the cursor cell, ends the loop, prints one newline and
\* returns the text.  The returned text is the sequence of printable units
\* with each backspace cancelling the last surviving one, and no cursor
\* block (176) drawn by the editor is in the buffer after the return.
C20_LineEditor ==
    /\ (last.op = "tick" /\ last.err = "none") =>
          CASE UnitKind(TickUnit) = "printable" ->
                 /\ pc = "editing"
                 /\ input_text = Append(Text0, TickUnit)
                 /\ chars = [last.chars0 EXCEPT ![P0] = TickUnit]
                 /\ cursor = P0 + 1
            [] UnitKind(TickUnit) = "backspace" /\ Text0 # <<>> ->
                 /\ pc = "editing"
                 /\ input_text = SubSeq(Text0, 1, Len(Text0) - 1)
                 /\ chars = [last.chars0 EXCEPT ![P0] = 32, ![P0 - 1] = 32]
                 /\ cursor = P0 - 1
            [] UnitKind(TickUnit) = "backspace" /\ Text0 = <<>> ->
                 /\ pc = "editing"
                 /\ input_text = <<>>
                 /\ cursor = P0
                 /\ \A i \in (0 .. (chars_len - 1)) \ {P0} : chars[i] = last.chars0[i]
            [] UnitKind(TickUnit) = "terminator" ->
                 LET r == print([Pre EXCEPT !.chars[P0] = 32], <<10>>)
                 IN  /\ pc = "returned"
                     /\ last.ret = <<Text0>>
                     /\ chars = r.chars
                     /\ cursor = r.cursor
                     /\ last.scrolls = r.scrolls
                     /\ last.scrolls = IF Row0 = LastRow THEN 1 ELSE 0
                     /\ chars[IF Row0 = LastRow THEN P0 - line_width ELSE P0] = 32
            [] UnitKind(TickUnit) = "nothing" ->
                 /\ pc = "editing"
                 /\ input_text = Text0
                 /\ cursor = P0
                 /\ \A i \in (0 .. (chars_len - 1)) \ {P0} : chars[i] = last.chars0[i]
    /\ pc = "editing" => input_text = EditFrom(units, 1, <<>>)
    /\ pc = "returned" =>
          /\ last.ret = <<EditFrom(units, 1, <<>>)>>
          /\ \A i \in 0 .. (chars_len - 1) : chars[i] # CursorBlock

C20_Witness ==
    /\ last.op = "tick" /\ last.err = "none"
    /\ TickUnit = 8 /\ TickPhase
    /\ demoInput = <<>>
    /\ units = <<65, 66, 8>>
    /\ Text0 = <<65, 66>> /\ input_text = <<65>>
    /\ P0 = 3 /\ cursor = 2
    /\ last.chars0[2] = 66
    /\ chars[0] = 63 /\ chars[1] = 65 /\ chars[2] = 32 /\ chars[3] = 32

\* C23: the cursor stays in [0, chars_len) throughout and after every
\* input() call, whatever the starting cursor and the number of accepted
\* characters, a line reaching the last cell included, and every cell
\* access of the editor is inside the buffer.
C23_InputCursorInRange ==
    pc # "idle" =>
        /\ cursor >= 0 /\ cursor < chars_len
        /\ last.err # "IndexError"

\* C24: _update_char fails with an out-of-range error for every position
\* outside [0, chars_len), the negative positions -1 .. -chars_len
\* included, and the failed call changes no cell and issues no redraw.
C24_OutOfRangeFails ==
    (last.op = "_update_char" /\ UpdatedCode \in AllCodes
       /\ ~(UpdatedPos >= 0 /\ UpdatedPos < chars_len)) =>
        /\ last.err # "none"
        /\ chars = last.chars0
        /\ last.redraws = 0

\* C25: _update_char(pos, code) changes no cell and redraws nothing when
\* the cell already holds code; otherwise it stores code in that one cell,
\* leaves every other cell and the cursor unchanged and issues exactly one
\* redraw, for that cell, within the call; a code outside [0, 255] is
\* rejected before any change.
C25_UpdateChar ==
    (last.op = "_update_char" /\ UpdatedPos >= 0 /\ UpdatedPos < chars_len) =>
        /\ cursor = last.cursor0
        /\ last.direct = 0
        /\ IF UpdatedCode \notin AllCodes
           THEN /\ last.err = "AssertionError"
                /\ chars = last.chars0
                /\ shown = last.chars0
                /\ last.redraws = 0
           ELSE IF last.chars0[UpdatedPos] = UpdatedCode
           THEN /\ last.err = "none"
                /\ chars = last.chars0
                /\ shown = last.chars0
                /\ last.redraws = 0
           ELSE /\ last.err = "none"
                /\ chars = [last.chars0 EXCEPT ![UpdatedPos] = UpdatedCode]
                /\ shown = [last.chars0 EXCEPT ![UpdatedPos] = UpdatedCode]
                /\ last.redraws = 1

C25_Witness ==
    /\ last.op = "_update_char"
    /\ UpdatedPos = chars_len - 1 /\ UpdatedCode = 0
    /\ last.chars0[UpdatedPos] = 255
    /\ chars[UpdatedPos] = 0 /\ shown[UpdatedPos] = 0
    /\ last.redraws = 1

\* C28: a scroll replaces the buffer by its shift up one row: new cell i is
\* old cell i+line_width for i in [0, chars_len - line_width), every cell
\* of the last row becomes 32, the old top row is gone, the buffer length
\* is unchanged and the cursor is unchanged.
C28_Scroll ==
    last.op = "_scroll" =>
        /\ last.err = "none"
        /\ DOMAIN chars = 0 .. (chars_len - 1)
        /\ DOMAIN chars = DOMAIN last.chars0
        /\ \A i \in 0 .. (chars_len - line_width - 1) :
              chars[i] = last.chars0[i + line_width]
        /\ \A i \in (chars_len - line_width) .. (chars_len - 1) : chars[i] = 32
        /\ cursor = last.cursor0
        /\ last.scrolls = 1

C28_Witness ==
    /\ last.op = "_scroll"
    /\ last.chars0[0] = 0 /\ last.chars0[line_width] = line_width
    /\ last.chars0[chars_len - 1] = 255
    /\ chars[0] = line_width
    /\ chars[chars_len - 1] = 32
    /\ chars[chars_len - line_width - 1] = 255
    /\ cursor = line_width + 6

\* the cells the last call changed
ChangedCells == {i \in 0 .. (chars_len - 1) : chars[i] # last.chars0[i]}

\* C26 as stated: every change of a buffer cell made by any operation
\* (print and the scrolls it triggers, print_at, cls, set, reset, poke,
\* input) is made by the update primitive, with a per-cell redraw for each
\* changed cell; no operation writes a cell by another path.
C26_NoDirectWrite ==
    /\ last.direct = 0
    /\ Cardinality(ChangedCells) <= last.redraws

\* C26: every change of a buffer cell made by print outside its scrolls, by
\* print_at, set, reset, poke and input is made by the update primitive,
\* with a per-cell redraw for each change; _scroll and _cls write every cell
\* of the buffer directly and repaint the surface as a whole, and nothing
\* else writes a cell directly.
C26_DirectOnlyInScrollAndCls ==
    /\ last.direct = chars_len * (last.scrolls + (IF last.op = "cls" THEN 1 ELSE 0))
    /\ last.op \in {"set", "reset", "poke", "point", "peek"} => last.scrolls = 0
    /\ last.direct = 0 =>
          \E changed \in {ChangedCells} :
              /\ Cardinality(changed) <= last.redraws
              /\ \A i \in changed : shown[i] = chars[i]

C26_Witness ==
    /\ last.op = "print_at" /\ last.pos = chars_len - 1
    /\ last.text = <<65, 66, 10, 67, 68>>
    /\ last.scrolls = 2
    /\ last.direct = 2 * chars_len
    /\ last.redraws = 4
    /\ last.chars0[line_width] = 67

\* C27: with the renderer as a shadow array of displayed codes (a redraw
\* sets one entry, a scroll shifts the entries up one row and blanks the
\* last row, a clear blanks all), after every call of cls, print, print_at,
\* set, reset and poke the displayed code equals the buffer code in every
\* cell, also after scrolls in the middle of a print.
C27_SurfaceShowsBuffer ==
    /\ DOMAIN shown = DOMAIN chars
    /\ \A i \in 0 .. (chars_len - 1) : shown[i] = chars[i]

C27_Witness ==
    /\ last.op = "print" /\ last.text = LineText(line_width)
    /\ last.cursor0 = chars_len - line_width + 2
    /\ last.scrolls = 1
    /\ shown[chars_len - line_width - 1] = last.text[line_width - 2]
    /\ shown[chars_len - line_width] = last.text[line_width - 1]
    /\ shown[chars_len - line_width + 2] = 32
    /\ shown = chars

\* C29: in every reachable state the buffer has line_width*line_count cells
\* and every cell holds an integer in [0, 255]; initially every cell is 32
\* and the cursor is 0.  This holds after any sequence of cls, print,
\* print_at, set, reset, poke and input, failing calls included.
C29_BufferShape ==
    /\ chars_len = line_width * line_count
    /\ DOMAIN chars = 0 .. (line_width * line_count - 1)
    /\ \A i \in 0 .. (chars_len - 1) : chars[i] \in 0 .. 255
    /\ calls = 0 => (cursor = 0 /\ \A i \in 0 .. (chars_len - 1) : chars[i] = 32)

C29_Witness ==
    /\ last.op = "poke" /\ last.args = <<VideoBase + 2, 256>>
    /\ last.err = "AssertionError"
    /\ last.chars0[0] = 66
    /\ chars[2] = 32 /\ chars[0] = 66

\* the characters of script from replay position p (0-based) up to the next
\* terminator, the nulls left out, reading at most n characters and
\* wrapping to the start after the last one
RECURSIVE ScriptLine(_, _, _)
ScriptLine(script, p, n) ==
    IF n = 0 \/ script[p + 1] \in {10, 13} THEN <<>>
    ELSE (IF script[p + 1] = 0 THEN <<>> ELSE <<script[p + 1]>>)
             \o ScriptLine(script, (p + 1) % Len(script), n - 1)

\* the replay position at the time of the input() call in progress
CallPos == (demoInputPos - Len(units)) % Len(demoInput)

\* C21: with a script, each editor tick consumes exactly one script
\* character and advances the replay position by 1 modulo the script length,
\* so the position is always in [0, len(script)) and the live source is
\* never consulted; a null is not appended to the text, not drawn and does
\* not move the cursor; input() returns exactly the non-null characters
\* between the replay position at call time and the next terminator, and
\* consecutive calls continue where the previous one stopped, wrapping to
\* the script's start after its last character.
C21_ScriptReplay ==
    demoInput # <<>> =>
        /\ demoInputPos >= 0 /\ demoInputPos < Len(demoInput)
        /\ input_is_scripted(Self)
        /\ pc = "editing" =>
              \A phase \in BOOLEAN :
                  \E r \in {input_tick(Self, phase, NoUnit)} :
                      /\ r.demoInputPos = (demoInputPos + 1) % Len(demoInput)
                      /\ \A c \in {65, 8, 10} :
                            \E q \in {input_tick(Self, phase, c)} :
                                /\ q.chars = r.chars /\ q.cursor = r.cursor
                                /\ q.text = r.text /\ q.brk = r.brk
        /\ last.op = "input" => demoInputPos = last.pos
        /\ (last.op = "tick" /\ last.err = "none") =>
              /\ demoInputPos = (last.pos + 1) % Len(demoInput)
              /\ units[Len(units)] = demoInput[last.pos + 1]
              /\ \A i \in 1 .. Len(units) :
                    units[i] = demoInput[((CallPos + i - 1) % Len(demoInput)) + 1]
              /\ demoInput[last.pos + 1] = 0 =>
                    /\ pc = "editing"
                    /\ input_text = last.text
                    /\ cursor = last.cursor0
                    /\ \A i \in 0 .. (chars_len - 1) :
                          chars[i] = IF i # cursor THEN last.chars0[i]
                                     ELSE IF last.args[1] THEN CursorBlock ELSE 32
        /\ pc = "returned" =>
              /\ last.ret = <<ScriptLine(demoInput, CallPos, Len(demoInput))>>
              /\ demoInput[((demoInputPos - 1) % Len(demoInput)) + 1] \in {10, 13}

C21_Witness ==
    /\ demoInput = <<0, 72, 10, 73, 13>>
    /\ calls = 2 /\ pc = "returned"
    /\ units = <<73, 13>>
    /\ last.pos = 4 /\ demoInputPos = 0
    /\ last.ret = << <<73>> >>

\* C22: on lib_sdl, whenever a quit request is observed during delay(ms),
\* wait() or input() (the flag was set when the operation, or the editor
\* tick, began and is clear after it), the operation ends with
\* KeyboardInterrupt; none of the three returns normally after it has
\* observed the request.
C22_QuitCancels ==
    (last.op \in {"delay", "wait", "input", "tick"}
        /\ last.running0 /\ ~running) =>
        last.err = "KeyboardInterrupt"

\* the ten calls that begin with the _keep_running() check
SdlChecked ==
    {"cls", "print", "print_at", "tab", "set", "reset", "point", "peek",
     "poke", "input"}

\* C30: on lib_sdl the running flag is monotone: once it is false it stays
\* false, and from then on every call of cls, print, print_at, tab, set,
\* reset, point, peek, poke and input raises KeyboardInterrupt, and no step
\* changes the buffer or the cursor.
C30_QuitFreezes ==
    [][ ~running =>
          /\ ~running'
          /\ chars' = chars
          /\ cursor' = cursor
          /\ (calls' # calls /\ last'.op \in SdlChecked) =>
                last'.err = "KeyboardInterrupt" ]_vars

C30_Witness ==
    /\ ~running /\ ~last.running0
    /\ calls = 2
    /\ last.op = "print" /\ last.err = "KeyboardInterrupt"
    /\ chars[0] = 65
    /\ cursor = 1

\* the codes of text interpreted one after the other, each exactly once
RECURSIVE EachOnce(_, _)
EachOnce(self, text) ==
    IF text = <<>> THEN self
    ELSE LET s1 == print_char(self, Head(text))
         IN  IF s1.err # "none" THEN s1 ELSE EachOnce(s1, Tail(text))

\* two outcomes of print have the same effect
SameEffect(a, b) ==
    /\ a.chars = b.chars
    /\ a.cursor = b.cursor
    /\ a.shown = b.shown
    /\ a.err = b.err

\* C31: print(text) interprets every character of text exactly once and in
\* order, also after the codes 10/13, 30 and 31 whose inner loops reuse the
\* index variable i; so print(s + t) has the same effect as print(s)
\* followed by print(t): the state a print(s) call left is, after print(t),
\* the state print(s + t) gives from where print(s) began (the surface
\* showing the buffer there, as it does between calls).
C31_PrintConcat ==
    (last.op = "print" /\ last.err = "none") =>
        \E s0 \in {[Pre EXCEPT !.shown = last.chars0]} : \E s1 \in {Self} :
            /\ SameEffect(s1, EachOnce(s0, last.text))
            /\ \A t \in ConcatTexts :
                  SameEffect(print(s1, t), print(s0, last.text \o t))

C31_Witness ==
    /\ last.op = "print" /\ last.err = "none"
    /\ last.text = <<31, 67, 13>>
    /\ last.cursor0 = chars_len - 2
    /\ last.scrolls = 1
    /\ chars[chars_len - line_width - 2] = 67
    /\ cursor = chars_len - line_width

\* the script contains a terminator
HasTerminator(script) == \E i \in 1 .. Len(script) : script[i] \in {10, 13}

\* the script characters the input() in progress has consumed: the
\* iteration that failed did not reach its character
Consumed == IF pc = "failed" THEN Len(units) - 1 ELSE Len(units)

\* the characters the input() in progress accepts, counted from the replay
\* position it began at, fit in the cells from the cursor it began at to
\* the end of the buffer
ReplayFits ==
    Len(ScriptLine(demoInput, (demoInputPos - Consumed) % Len(demoInput),
                   Len(demoInput)))
        <= chars_len - (cursor - Len(input_text))

\* C32: with a script that contains a terminator, an input() call whose
\* accepted characters fit between the starting cursor and the end of the
\* buffer returns after consuming at most len(script) script characters:
\* it does not fail, and while it has not returned it has consumed fewer
\* than len(script); with a script without a terminator input() never
\* returns normally.
C32_ScriptedInputReturns ==
    (demoInput # <<>> /\ last.op \in {"input", "tick"}) =>
        IF HasTerminator(demoInput)
        THEN /\ pc = "returned" => Len(units) <= Len(demoInput)
             /\ (pc \in {"editing", "failed"} /\ ReplayFits) =>
                   /\ pc # "failed"
                   /\ Len(units) < Len(demoInput)
        ELSE pc # "returned"

====
